---- MODULE Spec2Model ----
(***************************************************************************)
(* Model of mcp-server-qdrant: the QdrantConnector (qdrant.py), whose      *)
(* store_memory / find_memories run as coroutines against one Qdrant       *)
(* database, the tools of the MCP servers (mcp_server.py), and the filter  *)
(* wrapper of the find tool (common/wrap_filters.py).                      *)
(* Every await of a coroutine is one step of the task that runs it.        *)
(***************************************************************************)
EXTENDS Integers, Sequences, FiniteSets, TLC

\* ------------------------------------------------------------------ bounds
MaxPoints == 2          \* uuids issued (points written) in one behaviour
VectorSize == 2         \* length of the vectors of the embedding provider
BigLimit == 3           \* a search limit that is at least MaxPoints
MaxFields == 2          \* filterable fields handed to one wrap_filters call

\* ------------------------------------------------------------ input domains
Tasks == {"t1", "t2"}
Caller == "t1"
CollectionNames == {"A", "B"}
Texts == {"fox", "dog"}

\* Python values of type Optional[Dict[str, Any]]
PyNone == [type |-> "NoneType", items |-> {}]
PyDict(items) == [type |-> "dict", items |-> items]
EmptyDict == PyDict({})
RedDict == PyDict({<<"color", "red">>})
BlueDict == PyDict({<<"color", "blue">>})
Metadatas == {PyNone, EmptyDict, RedDict}
\* the value None of a key; no text of the model equals it
Null == "null"
RedSevenDict == PyDict({<<"color", "red">>, <<"size", "7">>})
NullColorDict == PyDict({<<"color", Null>>})
\* metadata of stored memories and filter_metadata of searches, for the filter
TaggedMetadatas == {PyNone, RedDict, BlueDict, RedSevenDict}
FilterMetadatas == {PyNone, EmptyDict, RedDict, RedSevenDict, NullColorDict}
Limits == {1, BigLimit}

\* bool(x) of an Optional[Dict]: None and {} are falsy
Truthy(x) == x.type = "dict" /\ x.items # {}

\* ------------------------------------------------------------------- state
VARIABLES
    collections,   \* the database: collection name -> [vectors_config, points]
    uuids,         \* number of identifiers uuid.uuid4() has produced
    pc,            \* task -> the await the task is suspended at
    args,          \* task -> arguments of the call the task runs
    ret,           \* task -> outcome of the call (return value or exception)
    calls,         \* task -> external calls the running operation has issued
    stored,        \* log of the store_memory calls that returned: id written, collection, information, metadata, calling tool
    server         \* the MCP server: settings, construction phase, registered tools

vars == <<collections, uuids, pc, args, ret, calls, stored, server>>

NoArgs == [op |-> "none"]
NoRet == [kind |-> "none"]
Returned(v) == [kind |-> "return", value |-> v]
Raised(e) == [kind |-> "raise", error |-> e]

\* ---------------------------------------------------- external collaborators
\* EmbeddingProvider.embed_query / embed_documents: one fixed-length vector per text
Embed(text) == [i \in 1..VectorSize |-> text]
\* EmbeddingProvider.get_vector_name
VectorName == "fast-all-minilm-l6-v2"

\* AsyncQdrantClient.collection_exists
collection_exists(db, name) == name \in DOMAIN db

\* cosine similarity of two embeddings, as a rank
Score(qv, v) == IF qv = v THEN 2 ELSE 1

\* a point matches a Filter(must=[FieldCondition(key, MatchValue(value))...])
\* when its payload holds every key path with that value
PayloadAt(payload, key) ==
    IF "metadata" \in DOMAIN payload
    THEN {kv[2] : kv \in {x \in payload.metadata.items : "metadata." \o x[1] = key}}
    ELSE {}
Matches(point, filter) ==
    filter.type = "NoneType" \/
    \A cond \in filter.items : cond[2] \in PayloadAt(point.payload, cond[1])

Min(a, b) == IF a < b THEN a ELSE b

\* rankings: the sequences over a set of point ids without repetition, best score first
Rankings(points, ids, vname, qv) ==
    {s \in [1..Cardinality(ids) -> ids] :
        /\ \A i, j \in DOMAIN s : i # j => s[i] # s[j]
        /\ \A i, j \in DOMAIN s :
              i < j => Score(qv, points[s[i]].vector[vname]) >= Score(qv, points[s[j]].vector[vname])}

\* AsyncQdrantClient.search: the up to `limit` nearest points that match the filter
SearchHits(coll, vname, qv, limit, filter) ==
    LET ids == {id \in DOMAIN coll.points :
                    /\ vname \in DOMAIN coll.points[id].vector
                    /\ Matches(coll.points[id], filter)}
    IN  {SubSeq(r, 1, Min(limit, Len(r))) : r \in Rankings(coll.points, ids, vname, qv)}

\* ------------------------------------------------------------ QdrantConnector
\* the payload store_memory writes: metadata only when it is truthy
Payload(information, metadata) ==
    IF Truthy(metadata)
    THEN [document |-> information, metadata |-> metadata]
    ELSE [document |-> information]

\* bug: the identifier is a constant instead of a new uuid
NewIdConstant(n) == 1

\* id=uuid.uuid4().hex: the n-th identifier differs from all earlier ones
NewId(n) == n + 1

\* bug: the filter is not handed to the search
FilterConditionDropped(filter_metadata) == PyNone

\* the filter find_memories hands to the search: None unless filter_metadata is truthy
FilterCondition(filter_metadata) ==
    IF Truthy(filter_metadata)
    THEN [type |-> "Filter",
          items |-> {<<"metadata." \o kv[1], kv[2]>> : kv \in filter_metadata.items}]
    ELSE PyNone

\* one element of the list find_memories returns
FoundMemory(point, qv, vname) ==
    [document |-> point.payload.document,
     metadata |-> IF "metadata" \in DOMAIN point.payload
                  THEN point.payload.metadata ELSE EmptyDict,
     score |-> Score(qv, point.vector[vname])]

Issue(t, call) == calls' = [calls EXCEPT ![t] = Append(@, call)]
Raise(t, e) ==
    /\ pc' = [pc EXCEPT ![t] = "done"]
    /\ ret' = [ret EXCEPT ![t] = Raised(e)]
Return(t, v) ==
    /\ pc' = [pc EXCEPT ![t] = "done"]
    /\ ret' = [ret EXCEPT ![t] = Returned(v)]
Goto(t, label) ==
    /\ pc' = [pc EXCEPT ![t] = label]
    /\ UNCHANGED ret

Running(t, op, label) == pc[t] = label /\ args[t].op = op

\* the call was made by a tool of the MCP server
ByTool(t) == "tool" \in DOMAIN args[t]

\* a caller awaits connector.store_memory(information, metadata) on the connector of collection c
call_store_memory(t, c, information, metadata) ==
    /\ pc[t] = "idle"
    /\ server.phase = "serving"
    /\ uuids + Cardinality({u \in Tasks : args[u].op = "store_memory" /\ pc[u] # "done"}) < MaxPoints
    /\ args' = [args EXCEPT ![t] = [op |-> "store_memory", collection_name |-> c,
                                    information |-> information, metadata |-> metadata]]
    /\ Goto(t, "collection_exists")
    /\ UNCHANGED <<collections, uuids, calls, stored, server>>

\* bug: the collection is created again without looking at the existence check
ensure_check_always_create(t) ==
    /\ Running(t, "store_memory", "collection_exists")
    /\ Issue(t, "collection_exists")
    /\ Goto(t, "embed_sample")
    /\ UNCHANGED <<collections, uuids, args, stored, server>>

\* bug: the existence of a collection this process has written to is remembered
ensure_check_cached(t) ==
    /\ Running(t, "store_memory", "collection_exists")
    /\ IF \E k \in DOMAIN stored : stored[k].collection_name = args[t].collection_name
       THEN /\ Goto(t, "embed_documents")
            /\ UNCHANGED calls
       ELSE /\ Issue(t, "collection_exists")
            /\ IF collection_exists(collections, args[t].collection_name)
               THEN Goto(t, "embed_documents")
               ELSE Goto(t, "embed_sample")
    /\ UNCHANGED <<collections, uuids, args, stored, server>>

\* _ensure_collection_exists, up to its first await
ensure_check(t) ==
    /\ Running(t, "store_memory", "collection_exists")
    /\ Issue(t, "collection_exists")
    /\ IF collection_exists(collections, args[t].collection_name)
       THEN Goto(t, "embed_documents")
       ELSE Goto(t, "embed_sample")
    /\ UNCHANGED <<collections, uuids, args, stored, server>>

\* _ensure_collection_exists: the probe embedding of "sample text"
ensure_probe(t) ==
    /\ Running(t, "store_memory", "embed_sample")
    /\ Issue(t, "embed_query")
    /\ \/ Goto(t, "create_collection")
       \/ Raise(t, "embedding")
    /\ UNCHANGED <<collections, uuids, args, stored, server>>

\* AsyncQdrantClient.create_collection: rejects a name that is already taken
CreateCollection(db, name, vname, size) ==
    IF collection_exists(db, name)
    THEN [ok |-> FALSE, db |-> db]
    ELSE [ok |-> TRUE,
          db |-> [n \in DOMAIN db \cup {name} |->
                    IF n = name
                    THEN [vectors_config |-> [name |-> vname, size |-> size, distance |-> "Cosine"],
                          points |-> <<>>]
                    ELSE db[n]]]

\* _ensure_collection_exists: create_collection with the probed vector size
ensure_create(t) ==
    /\ Running(t, "store_memory", "create_collection")
    /\ Issue(t, "create_collection")
    /\ LET r == CreateCollection(collections, args[t].collection_name,
                                 VectorName, Len(Embed("sample text")))
       IN  /\ collections' = r.db
           /\ IF r.ok THEN Goto(t, "embed_documents") ELSE Raise(t, "already_exists")
    /\ UNCHANGED <<uuids, args, stored, server>>

\* bug: the document embedding is tried again after a failure
store_embed_retrying(t) ==
    /\ Running(t, "store_memory", "embed_documents")
    /\ Issue(t, "embed_documents")
    /\ \/ Goto(t, "upsert")
       \/ /\ Len(calls[t]) < 6
          /\ Goto(t, "embed_documents")
       \/ Raise(t, "embedding")
    /\ UNCHANGED <<collections, uuids, args, stored, server>>

\* store_memory: embed_documents([information])
store_embed(t) ==
    /\ Running(t, "store_memory", "embed_documents")
    /\ Issue(t, "embed_documents")
    /\ \/ Goto(t, "upsert")
       \/ Raise(t, "embedding")
    /\ UNCHANGED <<collections, uuids, args, stored, server>>

\* bug: the point goes to one fixed collection, whatever name is addressed
UpsertDefault(db, name, point) ==
    LET first == IF "A" \in DOMAIN db THEN "A" ELSE name
    IN  [db EXCEPT ![first].points =
            [i \in DOMAIN @ \cup {point.id} |-> IF i = point.id THEN point ELSE @[i]]]

\* AsyncQdrantClient.upsert of one point: insert, or replace the point of the same id
Upsert(db, name, point) ==
    [db EXCEPT ![name].points =
        [i \in DOMAIN @ \cup {point.id} |-> IF i = point.id THEN point ELSE @[i]]]

\* bug: the point is written although the write is reported as failed
store_upsert_partial(t) ==
    /\ Running(t, "store_memory", "upsert")
    /\ Issue(t, "upsert")
    /\ LET c == args[t].collection_name
           id == NewId(uuids)
           point == [id |-> id,
                     vector |-> [n \in {VectorName} |-> Embed(args[t].information)],
                     payload |-> Payload(args[t].information, args[t].metadata)]
       IN  /\ uuids' = uuids + 1
           /\ IF ~collection_exists(collections, c)
              THEN /\ Raise(t, "not_found")
                   /\ UNCHANGED <<collections, stored>>
              ELSE /\ collections' = Upsert(collections, c, point)
                   /\ \/ /\ stored' = Append(stored, [id |-> id, collection_name |-> c,
                                                      information |-> args[t].information,
                                                      metadata |-> args[t].metadata,
                                                      tool |-> IF ByTool(t) THEN args[t].tool
                                                               ELSE "none"])
                         /\ Return(t, PyNone)
                      \/ /\ Raise(t, "storage")
                         /\ UNCHANGED stored
    /\ UNCHANGED <<args, server>>

\* store_memory: build the payload and upsert one point under a new uuid
store_upsert(t) ==
    /\ Running(t, "store_memory", "upsert")
    /\ Issue(t, "upsert")
    /\ LET c == args[t].collection_name
           id == NewId(uuids)
           point == [id |-> id,
                     vector |-> [n \in {VectorName} |-> Embed(args[t].information)],
                     payload |-> Payload(args[t].information, args[t].metadata)]
       IN  /\ uuids' = uuids + 1
           /\ IF ~collection_exists(collections, c)
              THEN /\ Raise(t, "not_found")
                   /\ UNCHANGED <<collections, stored>>
              ELSE \/ /\ collections' = Upsert(collections, c, point)
                      /\ stored' = Append(stored, [id |-> id, collection_name |-> c,
                                                   information |-> args[t].information,
                                                   metadata |-> args[t].metadata,
                                                   tool |-> IF ByTool(t) THEN args[t].tool
                                                            ELSE "none"])
                      /\ Return(t, PyNone)
                   \/ /\ Raise(t, "storage")
                      /\ UNCHANGED <<collections, stored>>
    /\ UNCHANGED <<args, server>>

\* a caller awaits connector.find_memories(query, limit, filter_metadata)
call_find_memories(t, c, query, limit, filter_metadata) ==
    /\ pc[t] = "idle"
    /\ server.phase = "serving"
    /\ args' = [args EXCEPT ![t] = [op |-> "find_memories", collection_name |-> c,
                                    query |-> query, limit |-> limit,
                                    filter_metadata |-> filter_metadata]]
    /\ Goto(t, "collection_exists")
    /\ UNCHANGED <<collections, uuids, calls, stored, server>>

\* bug: no early return when the collection does not exist
find_check_no_early_return(t) ==
    /\ Running(t, "find_memories", "collection_exists")
    /\ Issue(t, "collection_exists")
    /\ Goto(t, "embed_query")
    /\ UNCHANGED <<collections, uuids, args, stored, server>>

\* bug: the search creates the collection it does not find
find_check_creating(t) ==
    /\ Running(t, "find_memories", "collection_exists")
    /\ Issue(t, "collection_exists")
    /\ IF collection_exists(collections, args[t].collection_name)
       THEN Goto(t, "embed_query") /\ UNCHANGED collections
       ELSE /\ Return(t, <<>>)
            /\ collections' = [n \in DOMAIN collections \cup {args[t].collection_name} |->
                                 IF n = args[t].collection_name
                                 THEN [vectors_config |-> [name |-> VectorName, size |-> VectorSize,
                                                           distance |-> "Cosine"],
                                       points |-> <<>>]
                                 ELSE collections[n]]
    /\ UNCHANGED <<uuids, args, stored, server>>

\* find_memories: the existence check and the early return
find_check(t) ==
    /\ Running(t, "find_memories", "collection_exists")
    /\ Issue(t, "collection_exists")
    /\ IF collection_exists(collections, args[t].collection_name)
       THEN Goto(t, "embed_query")
       ELSE Return(t, <<>>)
    /\ UNCHANGED <<collections, uuids, args, stored, server>>

\* find_memories: embed_query(query)
find_embed(t) ==
    /\ Running(t, "find_memories", "embed_query")
    /\ Issue(t, "embed_query")
    /\ \/ Goto(t, "search")
       \/ Raise(t, "embedding")
    /\ UNCHANGED <<collections, uuids, args, stored, server>>

\* the filter of the search: the one built from filter_metadata, or the
\* query_filter a wrapped find passes on
QueryFilter(a) ==
    IF "query_filter" \in DOMAIN a THEN a.query_filter ELSE FilterCondition(a.filter_metadata)

\* MatchValue(value=None): a condition whose value the client library's model
\* may refuse to build
HasNullMatch(filter) ==
    filter.type = "Filter" /\ \E cond \in filter.items : cond[2] = Null

\* find_memories: build the filter, search, and build the returned list
find_search(t) ==
    /\ Running(t, "find_memories", "search")
    /\ LET c == args[t].collection_name
           qv == Embed(args[t].query)
           filter_condition == QueryFilter(args[t])
       IN  \/ /\ HasNullMatch(filter_condition)
              /\ Raise(t, "validation")
              /\ UNCHANGED calls
           \/ /\ Issue(t, "search")
              /\ IF ~collection_exists(collections, c)
                 THEN Raise(t, "not_found")
                 ELSE \E hits \in SearchHits(collections[c], VectorName, qv, args[t].limit,
                                             filter_condition) :
                        Return(t, [i \in DOMAIN hits |->
                                      FoundMemory(collections[c].points[hits[i]], qv, VectorName)])
    /\ UNCHANGED <<collections, uuids, args, stored, server>>

\* the caller takes the outcome; the task is free for the next call
finish(t) ==
    /\ pc[t] = IF ByTool(t) THEN "replied" ELSE "done"
    /\ pc' = [pc EXCEPT ![t] = "idle"]
    /\ args' = [args EXCEPT ![t] = NoArgs]
    /\ ret' = [ret EXCEPT ![t] = NoRet]
    /\ calls' = [calls EXCEPT ![t] = <<>>]
    /\ UNCHANGED <<collections, uuids, stored, server>>

\* ------------------------------------------------------------------ MCP server
PyStr(s) == [type |-> "str", value |-> s]
Settings == [collection_name : {PyNone, PyStr("A"), PyStr("B")}, read_only : BOOLEAN]

\* bug: store is registered without looking at read_only
setup_tools_always_store(read_only) == {"qdrant-find", "qdrant-store"}

\* QdrantMCPServer.setup_tools
setup_tools(read_only) ==
    {"qdrant-find"} \cup (IF ~read_only THEN {"qdrant-store"} ELSE {})

\* bug: the override does not call super().setup_tools()
multi_setup_tools_no_super(read_only) ==
    {"qdrant-list-collections"}
        \cup (IF ~read_only THEN {"qdrant-create-collection"} ELSE {})

\* MultiCollectionQdrantMCPServer.setup_tools
multi_setup_tools(read_only) ==
    setup_tools(read_only) \cup {"qdrant-list-collections"}
        \cup (IF ~read_only THEN {"qdrant-create-collection"} ELSE {})

\* bug: the class is picked without looking at the configured collection name
create_mcp_server_always_multi ==
    /\ server.phase = "uninitialized"
    /\ server' = [server EXCEPT
            !.phase = "serving",
            !.class = "MultiCollectionQdrantMCPServer",
            !.tools = multi_setup_tools(server.settings.read_only)]
    /\ UNCHANGED <<collections, uuids, pc, args, ret, calls, stored>>

\* create_mcp_server: pick the class by the configured collection name, construct it,
\* and let its __init__ register the tools
create_mcp_server ==
    /\ server.phase = "uninitialized"
    /\ LET s == server.settings
           default == s.collection_name.type = "str" /\ s.collection_name.value # ""
       IN  server' = [server EXCEPT
                !.phase = "serving",
                !.class = IF default THEN "DefaultCollectionQdrantMCPServer"
                          ELSE "MultiCollectionQdrantMCPServer",
                !.tools = IF default THEN setup_tools(s.read_only)
                          ELSE multi_setup_tools(s.read_only)]
    /\ UNCHANGED <<collections, uuids, pc, args, ret, calls, stored>>

\* MultiCollectionQdrantMCPServer.METADATA_COLLECTION_NAME
METADATA_COLLECTION_NAME == "__mcp_metadata__"

\* names a caller of the tools can supply
ToolCollectionNames == {"A", METADATA_COLLECTION_NAME}
Descriptions == {"purpose"}

\* the Entry the connector hands to the server for one found memory
EntryOf(memory) == [content |-> memory.document, metadata |-> memory.metadata]

\* json.dumps of a dict of strings
RECURSIVE JsonItems(_)
JsonItems(items) ==
    IF items = {} THEN ""
    ELSE LET kv == CHOOSE x \in items : TRUE
             rest == items \ {kv}
         IN  "\"" \o kv[1] \o "\": \"" \o kv[2] \o "\""
                 \o (IF rest = {} THEN "" ELSE ", " \o JsonItems(rest))
JsonDumps(d) == "{" \o JsonItems(d.items) \o "}"

\* QdrantMCPServer.format_entry
format_entry(entry) ==
    LET entry_metadata == IF Truthy(entry.metadata) THEN JsonDumps(entry.metadata) ELSE ""
    IN  "<entry><content>" \o entry.content \o "</content><metadata>"
            \o entry_metadata \o "</metadata></entry>"

\* bug: an empty search gives an empty list instead of the message
FindContentNoMessage(query, entries) ==
    [i \in 1..Len(entries) |-> format_entry(entries[i])]

\* find: what the tool returns for the entries of the search
FindContent(query, entries) ==
    IF entries = <<>>
    THEN <<"No information found for the query '" \o query \o "'">>
    ELSE <<"Results for the query '" \o query \o "'">>
            \o [i \in 1..Len(entries) |-> format_entry(entries[i])]

\* entry.metadata.get('description') as the f-string shows it
DescriptionOf(metadata) ==
    LET found == {kv[2] : kv \in {x \in metadata.items : x[1] = "description"}}
    IN  IF found = {} THEN "None" ELSE CHOOSE v \in found : TRUE

\* list_collections: what the tool returns for the entries of the metadata collection
\* (the two backquotes around the name are written ' here: a string of this
\* language cannot hold a backquote)
ListContent(entries) ==
    LET descriptor(entry) ==
            "- '" \o entry.content \o "'"
                \o (IF Truthy(entry.metadata) THEN ": " \o DescriptionOf(entry.metadata) ELSE "")
        content == <<"Available collections:">>
                    \o [i \in 1..Len(entries) |-> descriptor(entries[i])]
    IN  IF Len(content) = 1 THEN Append(content, "No collections found") ELSE content

\* DefaultCollectionQdrantMCPServer.find, up to the search of the connector
default_find(t, query) ==
    /\ pc[t] = "idle"
    /\ server.phase = "serving"
    /\ server.class = "DefaultCollectionQdrantMCPServer"
    /\ "qdrant-find" \in server.tools
    /\ args' = [args EXCEPT ![t] = [op |-> "find_memories", tool |-> "qdrant-find",
                                    collection_name |-> server.settings.collection_name.value,
                                    query |-> query, limit |-> BigLimit,
                                    filter_metadata |-> PyNone]]
    /\ Goto(t, "collection_exists")
    /\ UNCHANGED <<collections, uuids, calls, stored, server>>

\* bug: the store goes to a fixed collection, not to the configured one
default_store_fixed(t, information, metadata) ==
    /\ pc[t] = "idle"
    /\ server.phase = "serving"
    /\ server.class = "DefaultCollectionQdrantMCPServer"
    /\ "qdrant-store" \in server.tools
    /\ uuids < MaxPoints
    /\ args' = [args EXCEPT ![t] = [op |-> "store_memory", tool |-> "qdrant-store",
                                    collection_name |-> "A",
                                    information |-> information, metadata |-> metadata]]
    /\ Goto(t, "collection_exists")
    /\ UNCHANGED <<collections, uuids, calls, stored, server>>

\* DefaultCollectionQdrantMCPServer.store, up to the store of the connector
default_store(t, information, metadata) ==
    /\ pc[t] = "idle"
    /\ server.phase = "serving"
    /\ server.class = "DefaultCollectionQdrantMCPServer"
    /\ "qdrant-store" \in server.tools
    /\ uuids < MaxPoints
    /\ args' = [args EXCEPT ![t] = [op |-> "store_memory", tool |-> "qdrant-store",
                                    collection_name |-> server.settings.collection_name.value,
                                    information |-> information, metadata |-> metadata]]
    /\ Goto(t, "collection_exists")
    /\ UNCHANGED <<collections, uuids, calls, stored, server>>

\* bug: the find makes sure of the collection before it searches
multi_find_creating(t, query, collection_name) ==
    /\ pc[t] = "idle"
    /\ server.phase = "serving"
    /\ server.class = "MultiCollectionQdrantMCPServer"
    /\ "qdrant-find" \in server.tools
    /\ args' = [args EXCEPT ![t] = [op |-> "find_memories", tool |-> "qdrant-find",
                                    collection_name |-> collection_name,
                                    query |-> query, limit |-> BigLimit,
                                    filter_metadata |-> PyNone]]
    /\ Goto(t, "collection_exists")
    /\ collections' = CreateCollection(collections, collection_name, VectorName, VectorSize).db
    /\ UNCHANGED <<uuids, calls, stored, server>>

\* MultiCollectionQdrantMCPServer.find, up to the search of the connector
multi_find(t, query, collection_name) ==
    /\ pc[t] = "idle"
    /\ server.phase = "serving"
    /\ server.class = "MultiCollectionQdrantMCPServer"
    /\ "qdrant-find" \in server.tools
    /\ args' = [args EXCEPT ![t] = [op |-> "find_memories", tool |-> "qdrant-find",
                                    collection_name |-> collection_name,
                                    query |-> query, limit |-> BigLimit,
                                    filter_metadata |-> PyNone]]
    /\ Goto(t, "collection_exists")
    /\ UNCHANGED <<collections, uuids, calls, stored, server>>

\* MultiCollectionQdrantMCPServer.store, up to the store of the connector
multi_store(t, information, collection_name, metadata) ==
    /\ pc[t] = "idle"
    /\ server.phase = "serving"
    /\ server.class = "MultiCollectionQdrantMCPServer"
    /\ "qdrant-store" \in server.tools
    /\ uuids < MaxPoints
    /\ args' = [args EXCEPT ![t] = [op |-> "store_memory", tool |-> "qdrant-store",
                                    collection_name |-> collection_name,
                                    information |-> information, metadata |-> metadata]]
    /\ Goto(t, "collection_exists")
    /\ UNCHANGED <<collections, uuids, calls, stored, server>>

\* bug: create_collection also creates the vector collection it names
create_collection_eager(t, collection_name, description) ==
    /\ pc[t] = "idle"
    /\ server.phase = "serving"
    /\ server.class = "MultiCollectionQdrantMCPServer"
    /\ "qdrant-create-collection" \in server.tools
    /\ uuids < MaxPoints
    /\ args' = [args EXCEPT ![t] = [op |-> "store_memory", tool |-> "qdrant-create-collection",
                                    collection_name |-> METADATA_COLLECTION_NAME,
                                    information |-> collection_name,
                                    metadata |-> PyDict({<<"description", description>>})]]
    /\ Goto(t, "collection_exists")
    /\ collections' = CreateCollection(collections, collection_name, VectorName, VectorSize).db
    /\ UNCHANGED <<uuids, calls, stored, server>>

\* MultiCollectionQdrantMCPServer.create_collection, up to the store of the connector
create_collection(t, collection_name, description) ==
    /\ pc[t] = "idle"
    /\ server.phase = "serving"
    /\ server.class = "MultiCollectionQdrantMCPServer"
    /\ "qdrant-create-collection" \in server.tools
    /\ uuids < MaxPoints
    /\ args' = [args EXCEPT ![t] = [op |-> "store_memory", tool |-> "qdrant-create-collection",
                                    collection_name |-> METADATA_COLLECTION_NAME,
                                    information |-> collection_name,
                                    metadata |-> PyDict({<<"description", description>>})]]
    /\ Goto(t, "collection_exists")
    /\ UNCHANGED <<collections, uuids, calls, stored, server>>

\* MultiCollectionQdrantMCPServer.list_collections, up to the enumeration of the connector
list_collections(t) ==
    /\ pc[t] = "idle"
    /\ server.phase = "serving"
    /\ server.class = "MultiCollectionQdrantMCPServer"
    /\ "qdrant-list-collections" \in server.tools
    /\ args' = [args EXCEPT ![t] = [op |-> "iter_all", tool |-> "qdrant-list-collections",
                                    collection_name |-> METADATA_COLLECTION_NAME]]
    /\ Goto(t, "scroll")
    /\ UNCHANGED <<collections, uuids, calls, stored, server>>

\* the orders in which an enumeration can deliver the points (ids are random uuids)
Enumerations(ids) ==
    {s \in [1..Cardinality(ids) -> ids] : \A i, j \in DOMAIN s : i # j => s[i] # s[j]}

\* QdrantConnector.iter_all: every entry of the collection, none when it does not exist
iter_all(t) ==
    /\ Running(t, "iter_all", "scroll")
    /\ Issue(t, "scroll")
    /\ LET c == args[t].collection_name
           points == IF collection_exists(collections, c) THEN collections[c].points ELSE <<>>
       IN  \E order \in Enumerations(DOMAIN points) :
                Return(t, [i \in DOMAIN order |->
                              [content |-> points[order[i]].payload.document,
                               metadata |-> IF "metadata" \in DOMAIN points[order[i]].payload
                                            THEN points[order[i]].payload.metadata
                                            ELSE PyNone]])
    /\ UNCHANGED <<collections, uuids, args, stored, server>>

\* what the tool returns once its connector call has returned v
ToolResult(a, class, v) ==
    CASE a.tool = "qdrant-find" ->
            FindContent(a.query, [i \in DOMAIN v |-> EntryOf(v[i])])
      [] a.tool = "qdrant-store" ->
            IF class = "DefaultCollectionQdrantMCPServer"
            THEN "Remembered: " \o a.information
            ELSE "Remembered: " \o a.information \o " in collection " \o a.collection_name
      [] a.tool = "qdrant-create-collection" ->
            "Created collection " \o a.information
      [] a.tool = "qdrant-list-collections" ->
            ListContent(v)

\* bug: a failure of the connector is turned into the tool's text
tool_return_swallowing(t) ==
    /\ ByTool(t)
    /\ pc[t] = "done"
    /\ pc' = [pc EXCEPT ![t] = "replied"]
    /\ ret' = [ret EXCEPT ![t] =
                IF ret[t].kind = "raise"
                THEN Returned(ToolResult(args[t], server.class, <<>>))
                ELSE Returned(ToolResult(args[t], server.class, ret[t].value))]
    /\ UNCHANGED <<collections, uuids, args, calls, stored, server>>

\* the rest of the tool after its await: an exception of the connector goes on
\* to the caller, a return value is turned into the tool's result
tool_return(t) ==
    /\ ByTool(t)
    /\ pc[t] = "done"
    /\ pc' = [pc EXCEPT ![t] = "replied"]
    /\ ret' = [ret EXCEPT ![t] =
                IF ret[t].kind = "raise"
                THEN ret[t]
                ELSE Returned(ToolResult(args[t], server.class, ret[t].value))]
    /\ UNCHANGED <<collections, uuids, args, calls, stored, server>>

\* --------------------------------------------------------------- wrap_filters
\* an int value, written as its literal
PyInt(literal) == [type |-> "int", value |-> literal]

\* filterable_fields: field name -> field_type
FilterableFields == [color |-> "keyword", size |-> "integer"]

\* the Python type of the parameter generated for a field_type
FieldType(field_type) ==
    CASE field_type = "keyword" -> "str"
      [] field_type = "integer" -> "int"
      [] field_type = "float" -> "float"
      [] field_type = "boolean" -> "bool"

\* keyword arguments of a call of the wrapped find: each field is omitted, None,
\* a str or an int
SuppliedValues == {PyNone, PyStr("red"), PyInt("7")}
Kwargs == UNION {[S -> SuppliedValues] : S \in SUBSET DOMAIN FilterableFields}

\* make_filter(filterable_fields, values): the fields whose value is not of the
\* declared type, and the filter of the non-null values
make_filter(filterable_fields, values) ==
    LET given == {n \in DOMAIN values : values[n].type # "NoneType"}
        conditions == {<<"metadata." \o n, values[n].value>> : n \in given}
    IN  [errors |-> {n \in given : values[n].type # FieldType(filterable_fields[n])},
         filter |-> IF conditions = {} THEN PyNone
                    ELSE [type |-> "Filter", items |-> conditions]]

\* f(**base, **fields): the keyword arguments of a call
KeywordArguments(base, fields) ==
    [n \in DOMAIN base \cup DOMAIN fields |-> IF n \in DOMAIN base THEN base[n] ELSE fields[n]]

\* the ways a caller passes query q and collection "A" to the wrapped find:
\* both by keyword, or the query positionally
FindCalls(q) ==
    {[positional |-> <<>>,
      kwargs |-> [query |-> PyStr(q), collection_name |-> PyStr("A")]],
     [positional |-> <<PyStr(q)>>,
      kwargs |-> [collection_name |-> PyStr("A")]]}

\* what wrapper passes to original_func(**kwargs, query_filter=query_filter)
Forwarded(positional, remaining, query_filter) ==
    [args |-> <<>>,
     kwargs |-> [n \in DOMAIN remaining \cup {"query_filter"} |->
                    IF n = "query_filter" THEN query_filter ELSE remaining[n]]]

\* bug: original_func is called whatever make_filter says of the values
wrapper_unchecked(t, positional, kwargs) ==
    /\ pc[t] = "idle"
    /\ server.phase = "serving"
    /\ LET field_names == DOMAIN kwargs \cap DOMAIN FilterableFields
           filter_values == [n \in field_names |-> kwargs[n]]
           remaining == [n \in DOMAIN kwargs \ field_names |-> kwargs[n]]
           made == make_filter(FilterableFields, filter_values)
           received == Forwarded(positional, remaining, made.filter)
       IN  IF ~({"query", "collection_name"} \subseteq DOMAIN received.kwargs)
           THEN /\ args' = [args EXCEPT ![t] =
                        [op |-> "wrapper", positional |-> positional, kwargs |-> kwargs,
                         received |-> received]]
                /\ Raise(t, "TypeError")
           ELSE /\ args' = [args EXCEPT ![t] =
                        [op |-> "find_memories",
                         collection_name |-> received.kwargs.collection_name.value,
                         query |-> received.kwargs.query.value, limit |-> BigLimit,
                         query_filter |-> received.kwargs.query_filter,
                         positional |-> positional, kwargs |-> kwargs,
                         received |-> received]]
                /\ Goto(t, "collection_exists")
    /\ UNCHANGED <<collections, uuids, calls, stored, server>>

\* wrap_filters.wrapper(*args, **kwargs) around find(query, collection_name,
\* query_filter), a find that searches the connector: the field values are
\* popped from kwargs, make_filter runs, then original_func is called
wrapper(t, positional, kwargs) ==
    /\ pc[t] = "idle"
    /\ server.phase = "serving"
    /\ LET field_names == DOMAIN kwargs \cap DOMAIN FilterableFields
           filter_values == [n \in field_names |-> kwargs[n]]
           remaining == [n \in DOMAIN kwargs \ field_names |-> kwargs[n]]
           made == make_filter(FilterableFields, filter_values)
           received == Forwarded(positional, remaining, made.filter)
       IN  IF made.errors # {}
           THEN /\ args' = [args EXCEPT ![t] =
                        [op |-> "wrapper", positional |-> positional, kwargs |-> kwargs]]
                /\ \E n \in made.errors : Raise(t, "validation: " \o n)
           ELSE IF ~({"query", "collection_name"} \subseteq DOMAIN received.kwargs)
           THEN /\ args' = [args EXCEPT ![t] =
                        [op |-> "wrapper", positional |-> positional, kwargs |-> kwargs,
                         received |-> received]]
                /\ Raise(t, "TypeError")
           ELSE /\ args' = [args EXCEPT ![t] =
                        [op |-> "find_memories",
                         collection_name |-> received.kwargs.collection_name.value,
                         query |-> received.kwargs.query.value, limit |-> BigLimit,
                         query_filter |-> received.kwargs.query_filter,
                         positional |-> positional, kwargs |-> kwargs,
                         received |-> received]]
                /\ Goto(t, "collection_exists")
    /\ UNCHANGED <<collections, uuids, calls, stored, server>>

\* inspect.Parameter, of kind POSITIONAL_OR_KEYWORD; default "<empty>" is
\* inspect.Parameter.empty
Parameter(name, annotation, default) ==
    [name |-> name, kind |-> "POSITIONAL_OR_KEYWORD", default |-> default,
     annotation |-> annotation]

\* signatures of functions handed to wrap_filters: the find of the demo, a find
\* without query_filter, and a find with a parameter after query_filter
OriginalSignatures ==
    {<<Parameter("query", "str", "<empty>"), Parameter("collection_name", "str", "<empty>"),
       Parameter("query_filter", "Optional[Filter]", "None")>>,
     <<Parameter("ctx", "Context", "<empty>"), Parameter("query", "str", "<empty>")>>,
     <<Parameter("query", "str", "<empty>"),
       Parameter("query_filter", "Optional[Filter]", "None"),
       Parameter("limit", "int", "10")>>}

\* FilterableField(name, field_type), among them one of a type wrap_filters
\* does not know
FieldSpecs ==
    {[name |-> "color", field_type |-> "keyword"], [name |-> "size", field_type |-> "integer"],
     [name |-> "score", field_type |-> "float"], [name |-> "flag", field_type |-> "boolean"],
     [name |-> "place", field_type |-> "geo"]}

\* filterable_fields.values(): up to MaxFields fields of different names, in order
FieldLists ==
    UNION {{s \in [1..n -> FieldSpecs] : \A i, j \in 1..n : i # j => s[i] # s[j]} :
                n \in 0..MaxFields}

\* bug: the query_filter parameter stays in the signature
wrap_filters_keeping_filter(params, filterable_fields) ==
    LET unsupported == {i \in DOMAIN filterable_fields :
                            filterable_fields[i].field_type
                                \notin {"keyword", "integer", "float", "boolean"}}
    IN  IF unsupported # {}
        THEN LET first == CHOOSE i \in unsupported : \A j \in unsupported : i <= j
             IN  Raised("ValueError: Unsupported field type: "
                            \o filterable_fields[first].field_type)
        ELSE Returned(params \o
                [i \in DOMAIN filterable_fields |->
                    Parameter(filterable_fields[i].name,
                              FieldType(filterable_fields[i].field_type), "None")])

\* wrap_filters, the signature it gives the wrapper: the parameters of
\* original_func but query_filter, then one parameter per field; the first
\* field of an unsupported type raises ValueError
wrap_filters(params, filterable_fields) ==
    LET keep(p) == p.name # "query_filter"
        new_params == SelectSeq(params, keep)
        unsupported == {i \in DOMAIN filterable_fields :
                            filterable_fields[i].field_type
                                \notin {"keyword", "integer", "float", "boolean"}}
    IN  IF unsupported # {}
        THEN LET first == CHOOSE i \in unsupported : \A j \in unsupported : i <= j
             IN  Raised("ValueError: Unsupported field type: "
                            \o filterable_fields[first].field_type)
        ELSE Returned(new_params \o
                [i \in DOMAIN filterable_fields |->
                    Parameter(filterable_fields[i].name,
                              FieldType(filterable_fields[i].field_type), "None")])

\* a module calls wrap_filters(original_func, filterable_fields) when it is loaded
call_wrap_filters(t, params, filterable_fields) ==
    /\ pc[t] = "idle"
    /\ args' = [args EXCEPT ![t] = [op |-> "wrap_filters", params |-> params,
                                    filterable_fields |-> filterable_fields]]
    /\ pc' = [pc EXCEPT ![t] = "done"]
    /\ ret' = [ret EXCEPT ![t] = wrap_filters(params, filterable_fields)]
    /\ UNCHANGED <<collections, uuids, calls, stored, server>>

\* --------------------------------------------------------------- specification
Init ==
    /\ collections = [n \in {} |-> 0]
    /\ uuids = 0
    /\ pc = [t \in Tasks |-> "idle"]
    /\ args = [t \in Tasks |-> NoArgs]
    /\ ret = [t \in Tasks |-> NoRet]
    /\ calls = [t \in Tasks |-> <<>>]
    /\ stored = <<>>
    /\ server \in {[phase |-> "uninitialized", settings |-> s, class |-> "none", tools |-> {}] :
                        s \in Settings}

Step(t) ==
    \/ ensure_check(t)
    \/ ensure_probe(t)
    \/ ensure_create(t)
    \/ store_embed(t)
    \/ store_upsert(t)
    \/ find_check(t)
    \/ find_embed(t)
    \/ find_search(t)
    \/ finish(t)

\* one caller that awaits one connector call at a time
Next ==
    \/ create_mcp_server
    \/ \E c \in CollectionNames, x \in Texts, m \in Metadatas :
            call_store_memory(Caller, c, x, m)
    \/ \E c \in CollectionNames, q \in Texts, l \in Limits, f \in {PyNone, RedDict} :
            call_find_memories(Caller, c, q, l, f)
    \/ \E t \in Tasks : Step(t)

Spec == Init /\ [][Next]_vars

\* callers whose connector calls interleave at the awaits
ConcNext ==
    \/ create_mcp_server
    \/ \E t \in Tasks, c \in CollectionNames :
            call_store_memory(t, c, "fox", PyNone)
    \/ \E t \in Tasks, c \in CollectionNames :
            call_find_memories(t, c, "fox", BigLimit, PyNone)
    \/ \E t \in Tasks : Step(t)

ConcSpec == Init /\ [][ConcNext]_vars

\* AsyncQdrantClient.delete_collection by another client of the database,
\* between two calls of this process
external_delete(c) ==
    /\ collection_exists(collections, c)
    /\ \A t \in Tasks : pc[t] = "idle"
    /\ collections' = [n \in DOMAIN collections \ {c} |-> collections[n]]
    /\ UNCHANGED <<uuids, pc, args, ret, calls, stored, server>>

\* one caller, and a database whose collections other clients delete
DelNext ==
    \/ create_mcp_server
    \/ \E c \in CollectionNames, x \in Texts : call_store_memory(Caller, c, x, PyNone)
    \/ \E c \in CollectionNames, q \in Texts : call_find_memories(Caller, c, q, BigLimit, PyNone)
    \/ \E c \in CollectionNames : external_delete(c)
    \/ \E t \in Tasks : Step(t)

DelSpec == Init /\ [][DelNext]_vars

\* one caller that stores tagged memories into one collection and searches it
\* with filters
FilterNext ==
    \/ create_mcp_server
    \/ \E x \in Texts, m \in TaggedMetadatas : call_store_memory(Caller, "A", x, m)
    \/ \E q \in Texts, l \in Limits, f \in FilterMetadatas :
            call_find_memories(Caller, "A", q, l, f)
    \/ \E q \in Texts, k \in Kwargs : \E c \in FindCalls(q) :
            wrapper(Caller, c.positional, KeywordArguments(c.kwargs, k))
    \/ \E t \in Tasks : Step(t)

FilterSpec == Init /\ [][FilterNext]_vars

\* one caller that builds wrappers
WrapNext ==
    \/ \E o \in OriginalSignatures, f \in FieldLists : call_wrap_filters(Caller, o, f)
    \/ finish(Caller)

WrapSpec == Init /\ [][WrapNext]_vars

\* one caller of the tools the server has registered
ToolNext ==
    \/ create_mcp_server
    \/ \E q \in Texts : default_find(Caller, q)
    \/ \E x \in Texts, m \in {PyNone, RedDict} : default_store(Caller, x, m)
    \/ \E q \in Texts, c \in ToolCollectionNames : multi_find(Caller, q, c)
    \/ \E x \in Texts, c \in ToolCollectionNames, m \in {PyNone, RedDict} :
            multi_store(Caller, x, c, m)
    \/ \E c \in ToolCollectionNames, d \in Descriptions : create_collection(Caller, c, d)
    \/ list_collections(Caller)
    \/ \E t \in Tasks : iter_all(t) \/ tool_return(t) \/ Step(t)

ToolSpec == Init /\ [][ToolNext]_vars

\* --------------------------------------------------------------------- claims
StoredIn(c) == {k \in DOMAIN stored : stored[k].collection_name = c}
PointsOf(c) == IF collection_exists(collections, c) THEN collections[c].points ELSE <<>>
AllPoints == {ci \in CollectionNames \X (1..uuids) : ci[2] \in DOMAIN PointsOf(ci[1])}

\* task t holds the list an unfiltered find_memories returned
FoundAll(t) ==
    /\ pc[t] = "done"
    /\ args[t].op = "find_memories"
    /\ ret[t].kind = "return"
    /\ args[t].filter_metadata = PyNone
    /\ args[t].limit >= Cardinality(DOMAIN PointsOf(args[t].collection_name))

\* task t holds the list a find_memories returned
Found(t) ==
    /\ pc[t] = "done"
    /\ args[t].op = "find_memories"
    /\ ret[t].kind = "return"

\* C1: after store(e, c) returned, an unfiltered search of c whose limit covers
\* the collection returns e, content and metadata as stored, as many times as e
\* was stored into c.
C1_RoundTrip ==
    \A t \in Tasks : FoundAll(t) =>
        \A k \in StoredIn(args[t].collection_name) :
            Cardinality({j \in DOMAIN ret[t].value :
                            /\ ret[t].value[j].document = stored[k].information
                            /\ ret[t].value[j].metadata = stored[k].metadata})
            = Cardinality({j \in StoredIn(args[t].collection_name) :
                            /\ stored[j].information = stored[k].information
                            /\ stored[j].metadata = stored[k].metadata})

\* C2: a search of a collection whose entries were all stored without metadata
\* returns only entries whose metadata is None, and a search of a collection whose
\* entries were all stored with an empty mapping returns no entry whose metadata is None.
C2_AbsentMetadataDistinct ==
    \A t \in Tasks : Found(t) =>
        LET c == args[t].collection_name
        IN  /\ (\A k \in StoredIn(c) : stored[k].metadata = PyNone)
                => \A j \in DOMAIN ret[t].value : ret[t].value[j].metadata = PyNone
            /\ (\A k \in StoredIn(c) : stored[k].metadata = EmptyDict)
                => \A j \in DOMAIN ret[t].value : ret[t].value[j].metadata # PyNone

\* C3: a find_memories that has checked a collection that does not exist has
\* returned the empty list, having issued nothing but the existence check.
C3_SearchMissingCollection ==
    \A t \in Tasks :
        (/\ args[t].op = "find_memories"
         /\ pc[t] # "collection_exists"
         /\ ~collection_exists(collections, args[t].collection_name))
        => /\ pc[t] = "done"
           /\ ret[t] = Returned(<<>>)
           /\ calls[t] = <<"collection_exists">>

C3_Witness ==
    \E t \in Tasks :
        /\ pc[t] = "done"
        /\ args[t].op = "find_memories"
        /\ args[t].filter_metadata = RedDict
        /\ ~collection_exists(collections, args[t].collection_name)
        /\ DOMAIN collections # {}
        /\ ret[t] = Returned(<<>>)

\* C4: no collection exists at first; a collection comes into existence only in
\* the create_collection step of a store_memory that targets its name; and the
\* collection of every store_memory that returned exists.
C4_LazyCreate ==
    /\ DOMAIN collections = {}
    /\ [][\A c \in CollectionNames :
            (~collection_exists(collections, c) /\ collection_exists(collections', c))
            => \E t \in Tasks :
                /\ args[t].op = "store_memory"
                /\ args[t].collection_name = c
                /\ pc[t] = "create_collection"]_vars
    /\ [](\A k \in DOMAIN stored : collection_exists(collections, stored[k].collection_name))

C4_Witness ==
    /\ stored # <<>>
    /\ \A k \in DOMAIN stored : stored[k].collection_name = "B"
    /\ collection_exists(collections, "B")
    /\ ~collection_exists(collections, "A")

\* the returned element res shows the entry e that a store_memory call wrote
Shows(res, e) ==
    /\ res.document = e.information
    /\ IF Truthy(e.metadata) THEN res.metadata = e.metadata ELSE ~Truthy(res.metadata)

\* C5: every element a search of collection c returns shows an entry that was
\* stored into c: what was stored only into another collection is never returned.
C5_Isolation ==
    \A t \in Tasks : Found(t) =>
        \A j \in DOMAIN ret[t].value :
            \E k \in StoredIn(args[t].collection_name) : Shows(ret[t].value[j], stored[k])

C5_Witness ==
    \E t \in Tasks :
        /\ Found(t)
        /\ ret[t].value # <<>>
        /\ \E k \in DOMAIN stored :
            /\ stored[k].collection_name # args[t].collection_name
            /\ \A j \in DOMAIN ret[t].value : ~Shows(ret[t].value[j], stored[k])

\* C6: the existence check of a store_memory on a collection that exists goes
\* straight on to the document embedding: it raises nothing, it has issued the
\* existence check and no create_collection, and the database is unchanged.
C6_IdempotentEnsure ==
    [][\A t \in Tasks :
        (/\ args[t].op = "store_memory"
         /\ pc[t] = "collection_exists"
         /\ pc'[t] # "collection_exists"
         /\ collection_exists(collections, args[t].collection_name))
        => /\ pc'[t] = "embed_documents"
           /\ ret'[t] = NoRet
           /\ calls'[t] = <<"collection_exists">>
           /\ collections' = collections]_vars

C6_Witness ==
    \E t \in Tasks :
        /\ args[t].op = "store_memory"
        /\ pc[t] = "embed_documents"
        /\ calls[t] = <<"collection_exists">>
        /\ StoredIn(args[t].collection_name) # {}
        /\ DOMAIN PointsOf(args[t].collection_name) # {}

\* C7: no store_memory fails because the collection already exists.
C7_ConcurrentFirstWrites ==
    \A t \in Tasks :
        ~(args[t].op = "store_memory" /\ pc[t] = "done" /\ ret[t] = Raised("already_exists"))

\* C8: every store_memory that returned wrote one point of its own: the point is
\* still in its collection with the payload written, and there are as many
\* points as store_memory calls that returned.
C8_NeverOverwrites ==
    /\ \A k \in DOMAIN stored :
        /\ stored[k].id \in DOMAIN PointsOf(stored[k].collection_name)
        /\ PointsOf(stored[k].collection_name)[stored[k].id].payload
              = Payload(stored[k].information, stored[k].metadata)
    /\ Cardinality(AllPoints) = Len(stored)

C8_Witness ==
    /\ Len(stored) >= 2
    /\ stored[1].collection_name = stored[2].collection_name
    /\ stored[1].information = stored[2].information
    /\ stored[1].metadata = stored[2].metadata
    /\ Cardinality(DOMAIN PointsOf(stored[1].collection_name)) = 2
    /\ \E t \in Tasks : Found(t)

Serving == server.phase = "serving"
MultiMode == server.settings.collection_name = PyNone

\* C9: read-only servers register neither store nor create_collection; find stays
\* registered, and a multi-collection read-only server registers exactly find and
\* list_collections.
C9_ModeGating ==
    (Serving /\ server.settings.read_only) =>
        /\ "qdrant-store" \notin server.tools
        /\ "qdrant-create-collection" \notin server.tools
        /\ "qdrant-find" \in server.tools
        /\ MultiMode => server.tools = {"qdrant-find", "qdrant-list-collections"}

C9_Witness ==
    /\ Serving
    /\ server.settings.read_only
    /\ MultiMode
    /\ server.tools = {"qdrant-find", "qdrant-list-collections"}

\* C10: a server that is not read-only registers exactly find and store in
\* default-collection mode and exactly find, store, list_collections and
\* create_collection in multi-collection mode; a default-collection server never
\* registers list_collections or create_collection.
C10_RegisteredTools ==
    Serving =>
        /\ (~server.settings.read_only /\ ~MultiMode)
              => server.tools = {"qdrant-find", "qdrant-store"}
        /\ (~server.settings.read_only /\ MultiMode)
              => server.tools = {"qdrant-find", "qdrant-store",
                                 "qdrant-list-collections", "qdrant-create-collection"}
        /\ ~MultiMode => server.tools \cap {"qdrant-list-collections",
                                            "qdrant-create-collection"} = {}

C10_Witness ==
    /\ Serving
    /\ ~server.settings.read_only
    /\ MultiMode
    /\ Cardinality(server.tools) = 4


\* ------------------------------------------------------ claims on the tools
ToolDone(t, tool) == ByTool(t) /\ args[t].tool = tool /\ pc[t] = "replied"

\* C11: once the tools are registered the server is a default-collection server
\* exactly when a default collection name was configured, and no step changes
\* its class, its settings or its registered tools.
C11_ModeFixed ==
    /\ [](Serving => (server.class = "DefaultCollectionQdrantMCPServer" <=> ~MultiMode))
    /\ [](Serving => server.class \in {"DefaultCollectionQdrantMCPServer",
                                       "MultiCollectionQdrantMCPServer"})
    /\ [][Serving => server' = server]_vars

C11_Witness ==
    /\ Serving
    /\ ~MultiMode
    /\ server.class = "DefaultCollectionQdrantMCPServer"
    /\ stored # <<>>
    /\ ToolDone(Caller, "qdrant-find")

NoInformation(query) == "No information found for the query '" \o query \o "'"

\* C12: when the search of the connector has returned, find returns the one
\* no-results message naming the query exactly when the search returned no
\* entry, never an empty list, and otherwise a header followed by the formatted
\* entries in the order of the search.
C12_FindResult ==
    [][\A t \in Tasks :
        (/\ ByTool(t) /\ args[t].tool = "qdrant-find"
         /\ pc[t] = "done" /\ pc'[t] = "replied"
         /\ ret[t].kind = "return")
        => LET entries == ret[t].value
               out == ret'[t].value
           IN  /\ ret'[t].kind = "return"
               /\ out # <<>>
               /\ (out = <<NoInformation(args[t].query)>>) <=> (entries = <<>>)
               /\ entries # <<>> =>
                    /\ Len(out) = Len(entries) + 1
                    /\ out[1] = "Results for the query '" \o args[t].query \o "'"
                    /\ \A i \in DOMAIN entries : out[i + 1] = format_entry(EntryOf(entries[i]))]_vars

C12_Witness ==
    /\ ToolDone(Caller, "qdrant-find")
    /\ ret[Caller].kind = "return"
    /\ Len(ret[Caller].value) = 3
    /\ ret[Caller].value[2] # ret[Caller].value[3]

Created == {k \in DOMAIN stored : stored[k].tool = "qdrant-create-collection"}
ListLine(name, description) == "- '" \o name \o "': " \o description

\* C13: a list_collections that returns while no create_collection has returned
\* reports "No collections found", and a list_collections that returns after
\* create_collection(X, purpose) returned has a line with X and purpose.
C13_Listing ==
    \A t \in Tasks :
        (ToolDone(t, "qdrant-list-collections") /\ ret[t].kind = "return") =>
            /\ Created = {} =>
                ret[t].value = <<"Available collections:", "No collections found">>
            /\ \A k \in Created :
                \E i \in DOMAIN ret[t].value :
                    ret[t].value[i] = ListLine(stored[k].information,
                                               DescriptionOf(stored[k].metadata))

C20_FailuresSurface ==
    /\ [][\A t \in Tasks :
            (ByTool(t) /\ pc[t] = "done" /\ pc'[t] = "replied" /\ ret[t].kind = "raise")
            => ret'[t] = ret[t]]_vars
    /\ [](\A t \in Tasks :
            (ByTool(t) /\ pc[t] = "replied" /\ ret[t].kind = "return"
                /\ args[t].op = "store_memory")
            => \E k \in DOMAIN stored :
                /\ stored[k].information = args[t].information
                /\ stored[k].collection_name = args[t].collection_name)

C20_Witness ==
    /\ ToolDone(Caller, "qdrant-create-collection")
    /\ ret[Caller] = Raised("embedding")
    /\ calls[Caller] = <<"collection_exists", "embed_query">>

\* C19: a store that fails persists nothing: the step in which a store_memory
\* call fails leaves the points of every collection as they were, and the points
\* of a collection change only in the upsert step of a store that returns, so
\* the points after a failed call are those before the call.
C19_FailedStoreLeavesPoints ==
    [][/\ \A t \in Tasks :
            (args[t].op = "store_memory" /\ pc[t] # "done"
                /\ pc'[t] = "done" /\ ret'[t].kind = "raise")
            => \A c \in CollectionNames : PointsOf(c)' = PointsOf(c)
       /\ (\E c \in CollectionNames : PointsOf(c)' # PointsOf(c))
            => \E t \in Tasks : /\ Running(t, "store_memory", "upsert")
                                /\ pc'[t] = "done" /\ ret'[t].kind = "return"]_vars

\* a write was rejected in a collection that holds a point
C19_Witness ==
    \E t \in Tasks :
        /\ args[t].op = "store_memory" /\ pc[t] = "done"
        /\ ret[t] = Raised("storage")
        /\ DOMAIN PointsOf(args[t].collection_name) # {}

\* C18: existence is never cached: every find_memories and store_memory call
\* asks the database first, so no call fails on a collection that was deleted
\* before it was issued: a search of the deleted collection returns the empty
\* list, and a store that returns has recreated the collection and written its
\* point there.
C18_ExistenceNotCached ==
    \A t \in Tasks :
        /\ pc[t] \notin {"idle", "collection_exists"}
            => calls[t] # <<>> /\ calls[t][1] = "collection_exists"
        /\ ret[t] # Raised("not_found")
        /\ (Found(t) /\ ~collection_exists(collections, args[t].collection_name))
            => ret[t].value = <<>>
        /\ (args[t].op = "store_memory" /\ pc[t] = "done" /\ ret[t].kind = "return")
            => /\ collection_exists(collections, args[t].collection_name)
               /\ stored[Len(stored)].id \in DOMAIN PointsOf(args[t].collection_name)

\* a search of a collection that was written and then deleted has returned,
\* or a store has recreated such a collection
C18_Witness ==
    \E t \in Tasks :
        /\ pc[t] = "done"
        /\ StoredIn(args[t].collection_name) # {}
        /\ \/ Found(t) /\ ~collection_exists(collections, args[t].collection_name)
           \/ /\ args[t].op = "store_memory" /\ ret[t].kind = "return"
              /\ Cardinality(StoredIn(args[t].collection_name))
                    > Cardinality(DOMAIN PointsOf(args[t].collection_name))

\* ----------------------------------------------------- claims on the filters
\* the (name, value) pairs a find_memories call supplies
Supplied(a) == IF a.filter_metadata.type = "dict" THEN a.filter_metadata.items ELSE {}

ExpectedFilter(filter_metadata) ==
    LET conditions == {<<"metadata." \o kv[1], kv[2]>> :
                          kv \in {x \in filter_metadata.items : x[2] # Null}}
    IN  IF conditions = {} THEN PyNone ELSE [type |-> "Filter", items |-> conditions]

\* C16: the filter a search builds has one equality condition on
\* metadata.<name> for exactly the names with a non-null supplied value, and is
\* None (no filter), never an empty filter, when no condition results.
C16_FilterConstruction ==
    \A t \in Tasks :
        (args[t].op = "find_memories" /\ "filter_metadata" \in DOMAIN args[t]
            /\ (pc[t] = "search" \/ (pc[t] = "done" /\ ret[t] = Raised("validation"))))
        => FilterCondition(args[t].filter_metadata) = ExpectedFilter(args[t].filter_metadata)

\* the fields of a call of the wrapped find whose value is not of the declared type
Mismatched(a) ==
    IF "kwargs" \in DOMAIN a
    THEN {n \in DOMAIN a.kwargs \cap DOMAIN FilterableFields :
            a.kwargs[n].type \notin {"NoneType", FieldType(FilterableFields[n])}}
    ELSE {}

MetadataPoints ==
    IF collection_exists(collections, METADATA_COLLECTION_NAME)
    THEN collections[METADATA_COLLECTION_NAME].points ELSE <<>>

\* C27: every record of the reserved metadata collection was written by
\* create_collection, with the collection name as its content and the call's
\* description as metadata.description, and no store of the qdrant-store tool
\* has written into the reserved metadata collection.
C27_MetadataOnlyByCreate ==
    /\ \A id \in DOMAIN MetadataPoints :
        \E k \in DOMAIN stored :
            /\ stored[k].id = id
            /\ stored[k].tool = "qdrant-create-collection"
            /\ MetadataPoints[id].payload.document = stored[k].information
            /\ "metadata" \in DOMAIN MetadataPoints[id].payload
            /\ MetadataPoints[id].payload.metadata = stored[k].metadata
            /\ \E d \in Descriptions : stored[k].metadata = PyDict({<<"description", d>>})
    /\ \A k \in DOMAIN stored :
        stored[k].tool = "qdrant-store" => stored[k].collection_name # METADATA_COLLECTION_NAME

\* C21: in default-collection mode the configured collection is the only one
\* the router has created, written or addressed with a find or a store.
C21_DefaultCollectionOnly ==
    server.class = "DefaultCollectionQdrantMCPServer" =>
        LET default == server.settings.collection_name.value
        IN  /\ DOMAIN collections \subseteq {default}
            /\ \A k \in DOMAIN stored : stored[k].collection_name = default
            /\ \A t \in Tasks : ByTool(t) => args[t].collection_name = default

\* in default-collection mode on B a find has answered after a store
C21_Witness ==
    /\ server.class = "DefaultCollectionQdrantMCPServer"
    /\ server.settings.collection_name = PyStr("B")
    /\ stored # <<>>
    /\ \E t \in Tasks : ToolDone(t, "qdrant-find") /\ ret[t].kind = "return"

\* ------------------------------------------------ claims on the external calls
\* the embedding calls among the external calls of task t
EmbeddingCalls(t) ==
    Cardinality({i \in DOMAIN calls[t] : calls[t][i] \in {"embed_query", "embed_documents"}})

\* C22: a store that returns has made one embedding call (the documents) when
\* its existence check found the collection and two (the probe, then the
\* documents) when it did not; a search that returns has made none when its
\* existence check found no collection and one otherwise; an operation that
\* failed in an embedding call has made no call after it.
C22_EmbeddingCalls ==
    /\ [](\A t \in Tasks :
            /\ (args[t].op = "store_memory" /\ pc[t] = "done" /\ ret[t].kind = "return")
                => \/ calls[t] = <<"collection_exists", "embed_documents", "upsert">>
                   \/ calls[t] = <<"collection_exists", "embed_query", "create_collection",
                                   "embed_documents", "upsert">>
            /\ Found(t)
                => \/ calls[t] = <<"collection_exists">> /\ ret[t].value = <<>>
                   \/ calls[t] = <<"collection_exists", "embed_query", "search">>
            /\ ret[t] = Raised("embedding")
                => /\ pc[t] = "done"
                   /\ calls[t][Len(calls[t])] \in {"embed_query", "embed_documents"}
                   /\ EmbeddingCalls(t) <= 2)
    /\ [][\A t \in Tasks :
            (pc[t] = "collection_exists" /\ pc'[t] # "collection_exists") =>
                IF collection_exists(collections, args[t].collection_name)
                THEN pc'[t] = (IF args[t].op = "store_memory"
                               THEN "embed_documents" ELSE "embed_query")
                ELSE pc'[t] = (IF args[t].op = "store_memory"
                               THEN "embed_sample" ELSE "done")]_vars

\* a first store into a collection has returned after its two embedding calls
C22_Witness ==
    \E t \in Tasks :
        /\ args[t].op = "store_memory" /\ pc[t] = "done" /\ ret[t].kind = "return"
        /\ EmbeddingCalls(t) = 2

\* the line of the specification for a record of the metadata collection:
\* the name with its description, or the name alone when none was recorded
ExpectedLine(point) ==
    LET descriptions == IF "metadata" \in DOMAIN point.payload
                        THEN {kv[2] : kv \in {x \in point.payload.metadata.items :
                                                    x[1] = "description"}}
                        ELSE {}
    IN  IF descriptions = {}
        THEN "- '" \o point.payload.document \o "'"
        ELSE "- '" \o point.payload.document \o "': " \o (CHOOSE d \in descriptions : TRUE)

\* C23: list_collections returns, after its header, one line per record of the
\* reserved metadata collection: the name and the description when a
\* description was recorded, and the name alone when none was (also when the
\* record has metadata without a description key).
C23_ListRendering ==
    \A t \in Tasks :
        (ToolDone(t, "qdrant-list-collections") /\ ret[t].kind = "return"
            /\ DOMAIN MetadataPoints # {})
        => /\ Len(ret[t].value) = 1 + Cardinality(DOMAIN MetadataPoints)
           /\ \E order \in Enumerations(DOMAIN MetadataPoints) :
                \A i \in DOMAIN order :
                    ret[t].value[i + 1] = ExpectedLine(MetadataPoints[order[i]])

\* C26: no step of a search, of the connector or of the router's find, creates
\* a collection or writes a point, whatever collection it names; the set of
\* collections changes only in the create_collection call of
\* _ensure_collection_exists, reached through a store.
C26_SearchReadOnly ==
    [][/\ \A t \in Tasks :
            ((args[t].op = "find_memories" \/ args'[t].op = "find_memories")
                /\ pc'[t] # pc[t])
            => collections' = collections /\ uuids' = uuids /\ stored' = stored
       /\ DOMAIN collections' # DOMAIN collections
            => \E t \in Tasks : /\ Running(t, "store_memory", "create_collection")
                                /\ pc'[t] = "embed_documents"]_vars

\* the router's find has answered for a collection that still does not exist
C26_Witness ==
    \E t \in Tasks :
        /\ ToolDone(t, "qdrant-find")
        /\ ret[t].kind = "return"
        /\ ~collection_exists(collections, args[t].collection_name)

\* ------------------------------------------------------ claims on wrap_filters
\* the filter of the non-null field values among the keyword arguments
FilterOfKwargs(kwargs) ==
    LET conditions == {<<"metadata." \o n, kwargs[n].value>> :
                          n \in {m \in DOMAIN kwargs \cap DOMAIN FilterableFields :
                                    kwargs[m].type # "NoneType"}}
    IN  IF conditions = {} THEN PyNone ELSE [type |-> "Filter", items |-> conditions]

\* C25: original_func receives every positional argument and every keyword
\* argument of the call that is not a filterable field, unchanged, and one
\* query_filter built from the field values; no field name reaches it.
C25_ArgumentsForwarded ==
    \A t \in Tasks : "received" \in DOMAIN args[t] =>
        LET a == args[t]
            others == DOMAIN a.kwargs \ DOMAIN FilterableFields
        IN  /\ a.received.args = a.positional
            /\ DOMAIN a.received.kwargs = others \cup {"query_filter"}
            /\ \A n \in others : a.received.kwargs[n] = a.kwargs[n]
            /\ a.received.kwargs.query_filter = FilterOfKwargs(a.kwargs)

\* a sequence of parameters without the ones of a name, order kept
RECURSIVE Without(_, _)
Without(params, name) ==
    IF params = <<>> THEN <<>>
    ELSE IF Head(params).name = name THEN Without(Tail(params), name)
    ELSE <<Head(params)>> \o Without(Tail(params), name)

\* the parameter type of each supported field_type
ParameterTypes == [keyword |-> "str", integer |-> "int", float |-> "float", boolean |-> "bool"]

\* C24: wrap_filters gives the wrapper the parameters of the original function
\* without query_filter, in their order, followed by one parameter per field, in
\* field order, named after the field, with default None and the type of its
\* field_type; with a field of any other field_type the wrap_filters call itself
\* raises.
C24_WrappedSignature ==
    \A t \in Tasks : (args[t].op = "wrap_filters" /\ pc[t] = "done") =>
        LET params == args[t].params
            fields == args[t].filterable_fields
        IN  IF \E i \in DOMAIN fields : fields[i].field_type \notin DOMAIN ParameterTypes
            THEN ret[t].kind = "raise"
            ELSE /\ ret[t].kind = "return"
                 /\ LET kept == Len(ret[t].value) - Len(fields)
                    IN  /\ kept >= 0
                        /\ SubSeq(ret[t].value, 1, kept) = Without(params, "query_filter")
                        /\ \A i \in DOMAIN fields :
                              ret[t].value[kept + i] =
                                  [name |-> fields[i].name, kind |-> "POSITIONAL_OR_KEYWORD",
                                   default |-> "None",
                                   annotation |-> ParameterTypes[fields[i].field_type]]

\* a wrapper was built from a function with query_filter in the middle of its
\* parameters and two fields
C24_Witness ==
    \E t \in Tasks :
        /\ args[t].op = "wrap_filters" /\ pc[t] = "done" /\ ret[t].kind = "return"
        /\ Len(args[t].filterable_fields) = 2
        /\ Len(args[t].params) = 3
        /\ args[t].params[2].name = "query_filter"

====
